---- MODULE Spec2Model ----
(***************************************************************************)
(* Model of the postgres package (src/postgres.go, src/private.go): the    *)
(* helpers that sit between application code and a pgx connection pool.    *)
(* The helpers are modelled from their code; the pool, the transaction and *)
(* the logger they call are the environment, whose outcomes are drawn      *)
(* nondeterministically at every call site.                                *)
(*                                                                         *)
(* src/postgres.go holds two versions of the package one after the other;  *)
(* the model follows the later one (lines 90-341), which adds the timing   *)
(* log, RequestInOneTransaction, BulkInsert and the JSON, pagination and   *)
(* CTE helpers.                                                            *)
(*                                                                         *)
(* Every helper call records in `events` the driver calls it made and the  *)
(* log lines it emitted, in program order, and in `ret` what it returned.  *)
(***************************************************************************)
EXTENDS Integers, Sequences, FiniteSets, TLC

VARIABLES
    pc,         \* "start" before the call runs, "tx_loop" inside the statement loop, "done" after it returned
    call,       \* the helper called and its arguments
    events,     \* driver calls made and log lines emitted by the call, in order
    ret,        \* what the call returned
    db,         \* statement effects visible in the database
    db0,        \* db when the call started
    pending,    \* effects of the open transaction, not yet visible
    remaining,  \* entries of the statement map the loop has not visited
    txOpen,     \* the transaction begun by the call is still open
    pool,       \* "nil", "open" or "closed"
    rows,       \* the rows the driver yielded to the call
    jsonCell,   \* <<doc>> when the JSONB cell holds a document, <<>> when it has no row
    written     \* <<m>> when the cell was written by ExecJson from the map m

vars == <<pc, call, events, ret, db, db0, pending, remaining, txOpen, pool,
          rows, jsonCell, written>>

(***************************************************************************)
(* Bounds of the model.                                                    *)
(***************************************************************************)
MaxArgs == 2
MaxStmts == 2
MaxRows == 2

(***************************************************************************)
(* Go values (`any`) that travel as statement arguments.                   *)
(***************************************************************************)
IntV(n) == [ty |-> "int", v |-> n]
SliceV(s) == [ty |-> "[]any", v |-> s]

ArgVals == {IntV(1), IntV(2)}
ArgLists == UNION {[1..n -> ArgVals] : n \in 0..MaxArgs}

(***************************************************************************)
(* SQL text is a sequence of tokens: words and positional placeholders     *)
(* ($n as printed by fmt.Sprintf("$%d", n)).                               *)
(***************************************************************************)
W(s) == [k |-> "word", w |-> s, n |-> 0]
Ph(i) == [k |-> "ph", w |-> "$", n |-> i]

RECURSIVE MaxPh(_)
MaxPh(sql) ==
    IF sql = <<>> THEN 0
    ELSE LET r == MaxPh(Tail(sql))
             h == IF Head(sql).k = "ph" THEN Head(sql).n ELSE 0
         IN IF h > r THEN h ELSE r

(***************************************************************************)
(* error values: the chain of messages from the outermost wrapper to the   *)
(* root cause; nil is the empty chain.  Errorf models                      *)
(* fmt.Errorf("<msg>: %w", err).                                           *)
(***************************************************************************)
NilErr == <<>>
DriverErr(what) == <<what>>
Errorf(msg, err) == <<msg>> \o err
Cause(err) == err[Len(err)]

(***************************************************************************)
(* Events of one helper call.                                              *)
(***************************************************************************)
Drv(method, sql, args, ok) ==
    [kind |-> "drv", method |-> method, sql |-> sql, args |-> args,
     ok |-> ok, tagged |-> FALSE]
LogSql(sql) ==
    [kind |-> "log", method |-> "Executed %s in %s", sql |-> sql,
     args |-> <<>>, ok |-> TRUE, tagged |-> TRUE]
LogPlain(format) ==
    [kind |-> "log", method |-> format, sql |-> <<>>, args |-> <<>>,
     ok |-> TRUE, tagged |-> FALSE]

(***************************************************************************)
(* The driver never runs a statement whose number of arguments differs     *)
(* from the number of parameters of its text (pgx: "expected N arguments,  *)
(* got M"); a statement it accepts may still fail.                         *)
(***************************************************************************)
DriverAccepts(sql, args) == Len(args) = MaxPh(sql)
ExecOutcomes(sql, args) == IF DriverAccepts(sql, args) THEN {TRUE, FALSE} ELSE {FALSE}

(***************************************************************************)
(* RequestInOneTransaction                                                 *)
(***************************************************************************)
StmtDelete == <<W("DELETE")>>
StmtUpdate == <<W("UPDATE"), Ph(1)>>
StmtInsert == <<W("INSERT"), Ph(1)>>
StmtUpsert == <<W("UPSERT"), Ph(1), Ph(2)>>
StmtTexts == {StmtDelete, StmtUpdate, StmtInsert, StmtUpsert}

QueryParams ==
    UNION {[S -> ArgLists] : S \in {S \in SUBSET StmtTexts : Cardinality(S) <= MaxStmts}}

\* private.go: pool.Begin; a failure is wrapped once here.
beginTransaction(ok) ==
    IF ok THEN NilErr
    ELSE Errorf("failed to begin transaction", DriverErr("begin"))

\* postgres.go:228: tx.Exec(ctx, k, v) hands the slice v over as ONE variadic
\* argument (the call is not tx.Exec(ctx, k, v...)).
TxExecArgs(v) == <<SliceV(v)>>

\* postgres.go:229-230: the failure path of the loop.
TxExecFailCalls_Commit(rbOk) == <<Drv("Commit", <<>>, <<>>, rbOk)>>
TxExecFailCalls_None(rbOk) == <<>>
TxExecFailCalls(rbOk) == <<Drv("Rollback", <<>>, <<>>, rbOk)>>
TxExecFailReturn(err) == Errorf("failed to execute query", err)

\* postgres.go:234-238
TxCommitReturn(ok) ==
    IF ok THEN NilErr
    ELSE Errorf("failed to commit transaction", DriverErr("commit"))

TxLog == LogPlain("Executed requests is one tx in %s")

\* The database after the transaction ends: a commit that succeeds makes the
\* pending effects visible, anything else discards them.
TxEnd(d, p, method, ok) == IF method = "Commit" /\ ok THEN d \cup p ELSE d

RECURSIVE ApplyTxCalls(_, _, _)
ApplyTxCalls(d, p, calls) ==
    IF calls = <<>> THEN d
    ELSE ApplyTxCalls(TxEnd(d, p, Head(calls).method, Head(calls).ok), {}, Tail(calls))

RequestBegin ==
    /\ pc = "start"
    /\ call.op = "RequestInOneTransaction"
    /\ \E ok \in BOOLEAN :
        /\ pending' = {}
        /\ IF ok
           THEN /\ pc' = "tx_loop"
                /\ events' = <<Drv("Begin", <<>>, <<>>, TRUE)>>
                /\ remaining' = DOMAIN call.queryParam
                /\ txOpen' = TRUE
                /\ ret' = [done |-> FALSE, err |-> NilErr]
           ELSE /\ pc' = "done"
                /\ events' = <<Drv("Begin", <<>>, <<>>, FALSE), TxLog>>
                /\ remaining' = {}
                /\ txOpen' = FALSE
                /\ ret' = [done |-> TRUE,
                           err |-> Errorf("failed to begin transaction",
                                          beginTransaction(FALSE))]
    /\ UNCHANGED <<call, db, db0, pool, rows, jsonCell, written>>

RequestExec ==
    /\ pc = "tx_loop"
    /\ remaining # {}
    /\ \E k \in remaining :
        LET a == TxExecArgs(call.queryParam[k]) IN
        \E ok \in ExecOutcomes(k, a), rbOk \in BOOLEAN :
            IF ok
            THEN /\ events' = Append(events, Drv("Exec", k, a, TRUE))
                 /\ pending' = pending \cup {k}
                 /\ remaining' = remaining \ {k}
                 /\ UNCHANGED <<pc, ret, db, txOpen>>
            ELSE /\ events' = (Append(events, Drv("Exec", k, a, FALSE))
                                 \o TxExecFailCalls(rbOk)) \o <<TxLog>>
                 /\ db' = ApplyTxCalls(db, pending, TxExecFailCalls(rbOk))
                 /\ txOpen' = (TxExecFailCalls(rbOk) = <<>>)
                 /\ pending' = {}
                 /\ remaining' = remaining \ {k}
                 /\ pc' = "done"
                 /\ ret' = [done |-> TRUE,
                            err |-> TxExecFailReturn(DriverErr("exec"))]
    /\ UNCHANGED <<call, db0, pool, rows, jsonCell, written>>

RequestCommit ==
    /\ pc = "tx_loop"
    /\ remaining = {}
    /\ \E ok \in BOOLEAN :
        /\ events' = events \o <<Drv("Commit", <<>>, <<>>, ok), TxLog>>
        /\ db' = TxEnd(db, pending, "Commit", ok)
        /\ ret' = [done |-> TRUE, err |-> TxCommitReturn(ok)]
    /\ pending' = {}
    /\ txOpen' = FALSE
    /\ pc' = "done"
    /\ UNCHANGED <<call, db0, remaining, pool, rows, jsonCell, written>>

\* What earlier transactions may have committed.
CommittedBefore == SUBSET {StmtUpdate, StmtInsert}

TxCalls == {[op |-> "RequestInOneTransaction", queryParam |-> qp] : qp \in QueryParams}

(***************************************************************************)
(* BulkInsert                                                              *)
(***************************************************************************)
\* strings.Join over token sequences.
RECURSIVE Join(_, _)
Join(parts, sep) ==
    IF parts = <<>> THEN <<>>
    ELSE IF Len(parts) = 1 THEN parts[1]
    ELSE (parts[1] \o <<sep>>) \o Join(Tail(parts), sep)

\* postgres.go:249: the guard on an empty row set.
NoValues_Never(values) == FALSE
NoValues(values) == Len(values) = 0

\* postgres.go:259: the number of the placeholder of column j (from 0) of a
\* row built when nArgs arguments have been collected.
PlaceholderNo_PerRow(nArgs, j) == j + 1
PlaceholderNo(nArgs, j) == nArgs + j + 1

\* postgres.go:257-261: "(" placeholders joined by "," ")" for one row.
ValueString(row, nArgs) ==
    (<<W("(")>> \o Join([j \in 1..Len(row) |-> <<Ph(PlaceholderNo(nArgs, j - 1))>>], W(",")))
        \o <<W(")")>>

\* postgres.go:253-263: the loop over the rows, from row i on.
RECURSIVE BulkLoop(_, _, _, _)
BulkLoop(values, i, valueStrings, valueArgs) ==
    IF i > Len(values) THEN [valueStrings |-> valueStrings, valueArgs |-> valueArgs]
    ELSE BulkLoop(values, i + 1,
                  Append(valueStrings, ValueString(values[i], Len(valueArgs))),
                  valueArgs \o values[i])

\* postgres.go:265-270
BulkQuery(tableName, columns, valueStrings) ==
    (((<<W("INSERT INTO"), W(tableName), W("(")>>
        \o Join([c \in 1..Len(columns) |-> <<W(columns[c])>>], W(",")))
        \o <<W(")"), W("VALUES")>>)
        \o Join(valueStrings, W(",")))

BulkLog(tableName) == LogPlain("Executed bulk insert to the%s in %s")

RowLists == UNION {[1..n -> ArgLists] : n \in 0..MaxRows}
ColumnLists == {<<"a">>, <<"a", "b">>}

BulkCalls ==
    {[op |-> "BulkInsert", tableName |-> "t", columns |-> c, values |-> v] :
        c \in ColumnLists, v \in RowLists}

BulkInsert ==
    /\ pc = "start"
    /\ call.op = "BulkInsert"
    /\ IF NoValues(call.values)
       THEN /\ events' = <<BulkLog(call.tableName)>>
            /\ ret' = [done |-> TRUE, err |-> DriverErr("no values provided for insert")]
            /\ db' = db
       ELSE LET built == BulkLoop(call.values, 1, <<>>, <<>>)
                query == BulkQuery(call.tableName, call.columns, built.valueStrings)
            IN \E ok \in ExecOutcomes(query, built.valueArgs) :
                /\ events' = <<Drv("Exec", query, built.valueArgs, ok),
                               BulkLog(call.tableName)>>
                /\ ret' = [done |-> TRUE,
                           err |-> IF ok THEN NilErr
                                   ELSE Errorf("bulk insert failed", DriverErr("exec"))]
                /\ db' = IF ok THEN db \cup {query} ELSE db
    /\ pc' = "done"
    /\ UNCHANGED <<call, db0, pending, remaining, txOpen, pool, rows, jsonCell, written>>

(***************************************************************************)
(* Query helpers.  The environment of a query: whether the driver runs it, *)
(* the rows it yields, whether the rows decode into T, and whether reading *)
(* the rest of the result set reports an error.                            *)
(***************************************************************************)
SelectN(n) == <<W("SELECT")>> \o [i \in 1..n |-> Ph(i)]
QueryTexts == {SelectN(n) : n \in 0..MaxArgs}
RowSets == {[i \in 1..n |-> IntV(i)] : n \in 0..MaxRows}
DecodeOutcomes(rs) == IF rs = <<>> THEN {TRUE} ELSE {TRUE, FALSE}

ErrNoRows == DriverErr("no rows in result set")

\* The deferred lg.Infof("Executed %s in %s", sql, elapsed) of a helper runs
\* after its driver call.
HelperEvents_NoLog(method, sql, args, ok) == <<Drv(method, sql, args, ok)>>
HelperEvents(method, sql, args, ok) == <<Drv(method, sql, args, ok), LogSql(sql)>>

\* pgx.CollectRows(rows, fn)
CollectRows(rs, decOk) ==
    IF decOk THEN [done |-> TRUE, val |-> rs, err |-> NilErr]
    ELSE [done |-> TRUE, val |-> <<>>, err |-> DriverErr("decode")]

\* pool.QueryRow(ctx, sql, args...).Scan(&t): the error of the query, or
\* ErrNoRows when there is no row; otherwise the FIRST row is scanned and
\* the others are dropped.
ScanRow_NilOnNoRows(qOk, rs, decOk) ==
    IF ~qOk THEN [done |-> TRUE, val |-> <<>>, err |-> DriverErr("query")]
    ELSE IF rs = <<>> THEN [done |-> TRUE, val |-> <<>>, err |-> NilErr]
    ELSE IF ~decOk THEN [done |-> TRUE, val |-> <<>>, err |-> DriverErr("decode")]
    ELSE [done |-> TRUE, val |-> <<rs[1]>>, err |-> NilErr]
ScanRow(qOk, rs, decOk) ==
    IF ~qOk THEN [done |-> TRUE, val |-> <<>>, err |-> DriverErr("query")]
    ELSE IF rs = <<>> THEN [done |-> TRUE, val |-> <<>>, err |-> ErrNoRows]
    ELSE IF ~decOk THEN [done |-> TRUE, val |-> <<>>, err |-> DriverErr("decode")]
    ELSE [done |-> TRUE, val |-> <<rs[1]>>, err |-> NilErr]

\* pgx.CollectOneRow(rows, fn): ErrNoRows when there is no row; otherwise fn
\* on the FIRST row, then rows.Close() and rows.Err().
CollectOneRow(rs, decOk, closeOk) ==
    IF rs = <<>> THEN [done |-> TRUE, val |-> <<>>, err |-> ErrNoRows]
    ELSE IF ~decOk THEN [done |-> TRUE, val |-> <<>>, err |-> DriverErr("decode")]
    ELSE [done |-> TRUE, val |-> <<rs[1]>>,
          err |-> IF closeOk THEN NilErr ELSE DriverErr("rows")]

QueryFailed == [done |-> TRUE, val |-> <<>>, err |-> DriverErr("query")]

DirectOps == {"QueryStructs", "QuerySimple", "QueryOne", "QueryOneStruct", "Exec"}
DirectCalls == {[op |-> o, sql |-> q, args |-> a] : o \in DirectOps, q \in QueryTexts, a \in ArgLists}

\* postgres.go:138-152
QueryStructs ==
    /\ pc = "start"
    /\ call.op = "QueryStructs"
    /\ \E qOk \in ExecOutcomes(call.sql, call.args), rs \in RowSets :
        \E decOk \in DecodeOutcomes(rs) :
            /\ events' = HelperEvents("Query", call.sql, call.args, qOk)
            /\ rows' = IF qOk THEN rs ELSE <<>>
            /\ ret' = IF qOk THEN CollectRows(rs, decOk) ELSE QueryFailed
    /\ pc' = "done"
    /\ UNCHANGED <<call, db, db0, pending, remaining, txOpen, pool, jsonCell, written>>

\* postgres.go:155-169, for the text and arguments it is given.
QuerySimpleRun(sql, args, qOk, rs, decOk) ==
    [events |-> HelperEvents("Query", sql, args, qOk),
     rows |-> IF qOk THEN rs ELSE <<>>,
     ret |-> IF qOk THEN CollectRows(rs, decOk) ELSE QueryFailed]

QuerySimple ==
    /\ pc = "start"
    /\ call.op = "QuerySimple"
    /\ \E qOk \in ExecOutcomes(call.sql, call.args), rs \in RowSets :
        \E decOk \in DecodeOutcomes(rs) :
            LET r == QuerySimpleRun(call.sql, call.args, qOk, rs, decOk) IN
            /\ events' = r.events
            /\ rows' = r.rows
            /\ ret' = r.ret
    /\ pc' = "done"
    /\ UNCHANGED <<call, db, db0, pending, remaining, txOpen, pool, jsonCell, written>>

\* postgres.go:172-183
QueryOne ==
    /\ pc = "start"
    /\ call.op = "QueryOne"
    /\ \E qOk \in ExecOutcomes(call.sql, call.args), rs \in RowSets :
        \E decOk \in DecodeOutcomes(rs) :
            /\ events' = HelperEvents("QueryRow", call.sql, call.args, qOk)
            /\ rows' = IF qOk THEN rs ELSE <<>>
            /\ ret' = ScanRow(qOk, rs, decOk)
    /\ pc' = "done"
    /\ UNCHANGED <<call, db, db0, pending, remaining, txOpen, pool, jsonCell, written>>

\* postgres.go:186-200
QueryOneStruct ==
    /\ pc = "start"
    /\ call.op = "QueryOneStruct"
    /\ \E qOk \in ExecOutcomes(call.sql, call.args), rs \in RowSets :
        \E decOk \in DecodeOutcomes(rs), closeOk \in BOOLEAN :
            /\ events' = HelperEvents("Query", call.sql, call.args, qOk)
            /\ rows' = IF qOk THEN rs ELSE <<>>
            /\ ret' = IF qOk THEN CollectOneRow(rs, decOk, closeOk) ELSE QueryFailed
    /\ pc' = "done"
    /\ UNCHANGED <<call, db, db0, pending, remaining, txOpen, pool, jsonCell, written>>

\* postgres.go:203-212
Exec ==
    /\ pc = "start"
    /\ call.op = "Exec"
    /\ \E ok \in ExecOutcomes(call.sql, call.args) :
        /\ events' = HelperEvents("Exec", call.sql, call.args, ok)
        /\ ret' = [done |-> TRUE, val |-> <<>>,
                   err |-> IF ok THEN NilErr ELSE DriverErr("exec")]
        /\ db' = IF ok THEN db \cup {call.sql} ELSE db
    /\ pc' = "done"
    /\ UNCHANGED <<call, db0, pending, remaining, txOpen, pool, rows, jsonCell, written>>

(***************************************************************************)
(* QueryWithPagination, QueryWithCTE                                       *)
(***************************************************************************)
\* postgres.go:318
PaginatedSQL_OffByOne(sql, n) == sql \o <<W("LIMIT"), Ph(n), W("OFFSET"), Ph(n + 1)>>
PaginatedSQL(sql, n) == sql \o <<W("LIMIT"), Ph(n + 1), W("OFFSET"), Ph(n + 2)>>

\* postgres.go:319
PaginatedArgs(args, limit, offset) == args \o <<IntV(limit), IntV(offset)>>

\* postgres.go:332
CteSQL(cte, query) == (<<W("WITH")>> \o cte) \o query

Limits == {10, 20}
Offsets == {0, 20}
CteTexts == {<<W("c AS (SELECT 1)")>>}

PaginationCalls ==
    {[op |-> "QueryWithPagination", sql |-> q, limit |-> l, offset |-> o, args |-> a] :
        q \in QueryTexts, l \in Limits, o \in Offsets, a \in ArgLists}
CteCalls ==
    {[op |-> "QueryWithCTE", cte |-> c, query |-> q, args |-> a] :
        c \in CteTexts, q \in QueryTexts, a \in ArgLists}

\* postgres.go:311-322: the wrapper's own deferred log line carries the text
\* it was given and runs after QuerySimple has returned.
QueryWithPagination ==
    /\ pc = "start"
    /\ call.op = "QueryWithPagination"
    /\ LET paginatedSQL == PaginatedSQL(call.sql, Len(call.args))
           args == PaginatedArgs(call.args, call.limit, call.offset)
       IN \E qOk \in ExecOutcomes(paginatedSQL, args), rs \in RowSets :
            \E decOk \in DecodeOutcomes(rs) :
                LET r == QuerySimpleRun(paginatedSQL, args, qOk, rs, decOk) IN
                /\ events' = r.events \o <<LogSql(call.sql)>>
                /\ rows' = r.rows
                /\ ret' = r.ret
    /\ pc' = "done"
    /\ UNCHANGED <<call, db, db0, pending, remaining, txOpen, pool, jsonCell, written>>

\* postgres.go:325-334
QueryWithCTE ==
    /\ pc = "start"
    /\ call.op = "QueryWithCTE"
    /\ LET sql == CteSQL(call.cte, call.query)
       IN \E qOk \in ExecOutcomes(sql, call.args), rs \in RowSets :
            \E decOk \in DecodeOutcomes(rs) :
                LET r == QuerySimpleRun(sql, call.args, qOk, rs, decOk) IN
                /\ events' = r.events \o <<LogPlain("Executed CTE query in %s")>>
                /\ rows' = r.rows
                /\ ret' = r.ret
    /\ pc' = "done"
    /\ UNCHANGED <<call, db, db0, pending, remaining, txOpen, pool, jsonCell, written>>

(***************************************************************************)
(* QueryJson, ExecJson.  A Go map[string]any is a function from its keys   *)
(* to typed Go values; encoding/json writes its members in key order, a    *)
(* number as a JSON number whatever its Go type, and reads a JSON number   *)
(* into an interface{} as a float64.                                       *)
(***************************************************************************)
StrV(x) == [ty |-> "string", v |-> x]
Float64V(x) == [ty |-> "float64", v |-> x]
BoolV(b) == [ty |-> "bool", v |-> b]
NilV == [ty |-> "nil", v |-> 0]
ChanV == [ty |-> "chan", v |-> 0]
BytesV(doc) == [ty |-> "[]byte", v |-> doc]

JsonKeyOrder == <<"k", "n">>
JsonKeys == {JsonKeyOrder[i] : i \in DOMAIN JsonKeyOrder}
JsonVals == {StrV("v"), IntV(1), Float64V(1), BoolV(TRUE), NilV, ChanV}
JsonMaps == UNION {[S -> JsonVals] : S \in SUBSET JsonKeys}

JsonLit(jt, x) == [jt |-> jt, v |-> x]

\* json.Marshal of one value.
EncodeValue(x) ==
    IF x.ty = "string" THEN JsonLit("string", x.v)
    ELSE IF x.ty \in {"int", "float64"} THEN JsonLit("number", x.v)
    ELSE IF x.ty = "bool" THEN JsonLit("bool", x.v)
    ELSE JsonLit("null", 0)

\* json.Marshal(jsonData): the members in key order; an unsupported value
\* type is an error.
RECURSIVE EncodeMembers(_, _)
EncodeMembers(m, keys) ==
    IF keys = <<>> THEN <<>>
    ELSE IF Head(keys) \in DOMAIN m
         THEN <<[key |-> Head(keys), lit |-> EncodeValue(m[Head(keys)])]>>
                  \o EncodeMembers(m, Tail(keys))
         ELSE EncodeMembers(m, Tail(keys))

Marshal(m) ==
    IF \E k \in DOMAIN m : m[k].ty = "chan"
    THEN [ok |-> FALSE, bytes |-> <<>>]
    ELSE [ok |-> TRUE, bytes |-> EncodeMembers(m, JsonKeyOrder)]

\* json.Unmarshal of one value into an interface{}.
DecodeValue(lit) ==
    IF lit.jt = "string" THEN StrV(lit.v)
    ELSE IF lit.jt = "number" THEN Float64V(lit.v)
    ELSE IF lit.jt = "bool" THEN BoolV(lit.v)
    ELSE NilV

\* Scan of a JSONB document into a map[string]interface{}.
Unmarshal(doc) ==
    [k \in {doc[i].key : i \in DOMAIN doc} |->
        DecodeValue(doc[CHOOSE i \in DOMAIN doc : doc[i].key = k].lit)]

\* postgres.go:306: append(args, jsonBytes)
ExecJsonArgs_First(args, jsonBytes) == <<BytesV(jsonBytes)>> \o args
ExecJsonArgs(args, jsonBytes) == Append(args, BytesV(jsonBytes))

\* A statement that writes its last parameter into the JSONB cell.
InsertJsonN(n) == <<W("INSERT INTO j(data)")>> \o [i \in 1..n |-> Ph(i)]
JsonExecTexts == {InsertJsonN(n) : n \in 1..(MaxArgs + 1)}
SelectJson == <<W("SELECT data FROM j")>>

ExecJsonCalls ==
    {[op |-> "ExecJson", sql |-> q, jsonData |-> m, args |-> a] :
        q \in JsonExecTexts, m \in JsonMaps, a \in ArgLists}
QueryJsonCalls == {[op |-> "QueryJson", sql |-> SelectJson, args |-> <<>>]}

\* postgres.go:294-308
ExecJson ==
    /\ pc = "start"
    /\ call.op = "ExecJson"
    /\ LET j == Marshal(call.jsonData) IN
       IF ~j.ok
       THEN /\ events' = <<LogSql(call.sql)>>
            /\ ret' = [done |-> TRUE, val |-> <<>>, err |-> DriverErr("json: unsupported type")]
            /\ UNCHANGED <<jsonCell, written>>
       ELSE LET args == ExecJsonArgs(call.args, j.bytes) IN
            \E ok \in ExecOutcomes(call.sql, args) :
                /\ events' = HelperEvents("Exec", call.sql, args, ok)
                /\ ret' = [done |-> TRUE, val |-> <<>>,
                           err |-> IF ok THEN NilErr ELSE DriverErr("exec")]
                /\ jsonCell' = IF ok /\ args[Len(args)].ty = "[]byte"
                               THEN <<args[Len(args)].v>> ELSE jsonCell
                /\ written' = IF ok /\ args[Len(args)].ty = "[]byte"
                              THEN <<call.jsonData>> ELSE written
    /\ pc' = "done"
    /\ UNCHANGED <<call, db, db0, pending, remaining, txOpen, pool, rows>>

\* postgres.go:281-291
QueryJson ==
    /\ pc = "start"
    /\ call.op = "QueryJson"
    /\ \E qOk \in ExecOutcomes(call.sql, call.args) :
        /\ events' = HelperEvents("QueryRow", call.sql, call.args, qOk)
        /\ rows' = IF qOk THEN jsonCell ELSE <<>>
        /\ ret' = ScanRow(qOk, [i \in DOMAIN jsonCell |-> Unmarshal(jsonCell[i])], TRUE)
    /\ pc' = "done"
    /\ UNCHANGED <<call, db, db0, pending, remaining, txOpen, pool, jsonCell, written>>

\* The application reads back what ExecJson stored.
ReadBack ==
    /\ pc = "done"
    /\ call.op = "ExecJson"
    /\ call' \in QueryJsonCalls
    /\ pc' = "start"
    /\ events' = <<>>
    /\ ret' = [done |-> FALSE, val |-> <<>>, err |-> NilErr]
    /\ UNCHANGED <<db, db0, pending, remaining, txOpen, pool, rows, jsonCell, written>>

(***************************************************************************)
(* NewDB, Close                                                            *)
(***************************************************************************)
Configs ==
    [Host : {"db1", "db2"}, Port : {"5432", "x"}, SslMode : {"disable", "require"},
     MaxConn : {0, 8}, MaxConnTime : {0, 5}]

\* postgres.go:116-117
ConnectionUrl(cfg) == [host |-> cfg.Host, port |-> cfg.Port, sslmode |-> cfg.SslMode]

\* pgxpool.ParseConfig rejects a port that is no number; it may reject a
\* string for other reasons.
ParseOutcomes(url) == IF url.port = "x" THEN {FALSE} ELSE {TRUE, FALSE}

\* postgres.go:124-127: both overrides apply only when both are set.
PoolConfig(cfg) ==
    IF cfg.MaxConn # 0 /\ cfg.MaxConnTime # 0
    THEN [MaxConns |-> cfg.MaxConn, ConnectTimeout |-> cfg.MaxConnTime]
    ELSE [MaxConns |-> 0, ConnectTimeout |-> 0]

\* postgres.go:119-134: what NewDB returns.
NewDBReturn_PoolWithError(parseOk, poolOk) ==
    IF ~parseOk
    THEN [done |-> TRUE, pool |-> "nil", err |-> Errorf("failed to parse config", DriverErr("parse"))]
    ELSE IF ~poolOk
    THEN [done |-> TRUE, pool |-> "open",
          err |-> Errorf("failed to create connection pool", DriverErr("connect"))]
    ELSE [done |-> TRUE, pool |-> "open", err |-> NilErr]
NewDBReturn(parseOk, poolOk) ==
    IF ~parseOk
    THEN [done |-> TRUE, pool |-> "nil", err |-> Errorf("failed to parse config", DriverErr("parse"))]
    ELSE IF ~poolOk
    THEN [done |-> TRUE, pool |-> "nil",
          err |-> Errorf("failed to create connection pool", DriverErr("connect"))]
    ELSE [done |-> TRUE, pool |-> "open", err |-> NilErr]

\* postgres.go:119-129: the driver calls NewDB makes.
NewDBCalls(cfg, parseOk, poolOk) ==
    <<Drv("ParseConfig", <<>>, <<ConnectionUrl(cfg)>>, parseOk)>>
        \o (IF parseOk THEN <<Drv("NewWithConfig", <<>>, <<PoolConfig(cfg)>>, poolOk)>>
            ELSE <<>>)

NewDBCallSet == {[op |-> "NewDB", cfg |-> c] : c \in Configs}

NewDB ==
    /\ pc = "start"
    /\ call.op = "NewDB"
    /\ \E parseOk \in ParseOutcomes(ConnectionUrl(call.cfg)), poolOk \in BOOLEAN :
        /\ (~parseOk => poolOk)
        /\ events' = NewDBCalls(call.cfg, parseOk, poolOk)
        /\ ret' = NewDBReturn(parseOk, poolOk)
        /\ pool' = NewDBReturn(parseOk, poolOk).pool
    /\ pc' = "done"
    /\ UNCHANGED <<call, db, db0, pending, remaining, txOpen, rows, jsonCell, written>>

\* postgres.go:337-341: the application closes the pool NewDB gave it.
Close ==
    /\ pc = "done"
    /\ call.op = "NewDB"
    /\ pool # "closed"
    /\ pool' = IF pool # "nil" THEN "closed" ELSE pool
    /\ events' = IF pool # "nil" THEN Append(events, Drv("Close", <<>>, <<>>, TRUE)) ELSE events
    /\ pc' = "closed"
    /\ UNCHANGED <<call, ret, db, db0, pending, remaining, txOpen, rows, jsonCell, written>>

(***************************************************************************)
(* The specification: one helper call with any arguments, run to its end.  *)
(***************************************************************************)
Calls ==
    TxCalls \cup BulkCalls \cup DirectCalls \cup PaginationCalls \cup CteCalls
        \cup ExecJsonCalls \cup QueryJsonCalls \cup NewDBCallSet

Init ==
    /\ pc = "start"
    /\ call \in Calls
    /\ events = <<>>
    /\ ret = [done |-> FALSE, err |-> NilErr]
    /\ db \in (IF call.op = "RequestInOneTransaction" THEN CommittedBefore ELSE {{}})
    /\ db0 = db
    /\ pending = {}
    /\ remaining = {}
    /\ txOpen = FALSE
    /\ pool = IF call.op = "NewDB" THEN "nil" ELSE "open"
    /\ rows = <<>>
    /\ jsonCell = <<>>
    /\ written = <<>>

Next ==
    \/ RequestBegin
    \/ RequestExec
    \/ RequestCommit
    \/ BulkInsert
    \/ QueryStructs
    \/ QuerySimple
    \/ QueryOne
    \/ QueryOneStruct
    \/ Exec
    \/ QueryWithPagination
    \/ QueryWithCTE
    \/ ExecJson
    \/ QueryJson
    \/ ReadBack
    \/ NewDB
    \/ Close

Spec == Init /\ [][Next]_vars

(***************************************************************************)
(* Properties of RequestInOneTransaction                                   *)
(***************************************************************************)
DrvCalls(method) ==
    {i \in DOMAIN events : events[i].kind = "drv" /\ events[i].method = method}
FailedCalls(method) == {i \in DrvCalls(method) : ~events[i].ok}
OkCalls(method) == {i \in DrvCalls(method) : events[i].ok}
TxDone == pc = "done" /\ call.op = "RequestInOneTransaction"

\* C1: all-or-nothing.  When a statement failed, the database after the call
\* is the database before it and the error returned is not nil; when begin,
\* every statement and commit succeeded, the effect of every statement of the
\* map is in the database and nil is returned.
C1_AllOrNothing ==
    TxDone =>
        /\ (FailedCalls("Exec") # {} => db = db0 /\ ret.err # NilErr)
        /\ (OkCalls("Commit") # {} /\ FailedCalls("Exec") = {} =>
                db = db0 \cup DOMAIN call.queryParam /\ ret.err = NilErr)

\* A statement ran, a later one failed, and the call has returned.
C1_Witness ==
    /\ TxDone
    /\ OkCalls("Exec") # {}
    /\ FailedCalls("Exec") # {}
    /\ \E i \in OkCalls("Exec") : events[i].sql \notin db0

\* C8 as claimed: every statement run on the transaction gets the entry's
\* argument list as its positional arguments, each entry runs at most once,
\* and nothing runs after the first failure.
C8_ArgsArePositional ==
    call.op = "RequestInOneTransaction" =>
        /\ \A i \in DrvCalls("Exec") :
            LET v == call.queryParam[events[i].sql] IN
            /\ Len(events[i].args) = Len(v)
            /\ \A j \in 1..Len(v) : events[i].args[j] = v[j]
        /\ \A i, j \in DrvCalls("Exec") : events[i].sql = events[j].sql => i = j
        /\ \A i \in FailedCalls("Exec") : \A j \in DrvCalls("Exec") : j <= i

\* C10: the transaction is never left open.  After a begin that succeeded,
\* exactly one of Rollback and Commit was invoked: Rollback when a statement
\* failed, Commit when none did.  After a begin that failed nothing else was
\* invoked.  nil is returned only after a Commit that succeeded.
C10_TxAlwaysEnded ==
    TxDone =>
        /\ ~txOpen
        /\ Cardinality(DrvCalls("Begin")) = 1
        /\ (OkCalls("Begin") # {} =>
               /\ Cardinality(DrvCalls("Rollback")) + Cardinality(DrvCalls("Commit")) = 1
               /\ (DrvCalls("Rollback") # {} <=> FailedCalls("Exec") # {}))
        /\ (OkCalls("Begin") = {} =>
               DrvCalls("Exec") \cup DrvCalls("Rollback") \cup DrvCalls("Commit") = {})
        /\ (ret.err = NilErr => OkCalls("Commit") # {})

\* The failure path was taken and has returned.
C10_Witness ==
    /\ TxDone
    /\ FailedCalls("Exec") # {}
    /\ Cardinality(DrvCalls("Rollback")) = 1
    /\ DrvCalls("Commit") = {}

(***************************************************************************)
(* Properties of QueryOne and QueryOneStruct                               *)
(***************************************************************************)
Logs == {i \in DOMAIN events : events[i].kind = "log"}
DrvAll == {i \in DOMAIN events : events[i].kind = "drv"}
OneRowDone == pc = "done" /\ call.op \in {"QueryOne", "QueryOneStruct"}

\* C2 as claimed: an error whenever the query yields a number of rows other
\* than one; a value with a nil error only for exactly one row.
C2_FailsUnlessExactlyOneRow ==
    OneRowDone =>
        /\ (Len(rows) # 1 => ret.err # NilErr)
        /\ (ret.err = NilErr => Len(rows) = 1 /\ ret.val = <<rows[1]>>)

\* C2 amended: an error whenever the query yields no row; a nil error only
\* when it yields at least one row, and the value is then the first row;
\* with two or more rows the only errors are those of decoding the first row
\* and of reading the result set, never the number of rows.
C2_FailsOnNoRowFirstRowOtherwise ==
    OneRowDone =>
        /\ (Len(rows) = 0 => ret.err # NilErr)
        /\ (ret.err = NilErr => Len(rows) >= 1 /\ ret.val = <<rows[1]>>)
        /\ (Len(rows) >= 2 /\ ret.err # NilErr =>
                ret.err \in {DriverErr("decode"), DriverErr("rows")})

\* Two rows came back and the call returned the first one without an error.
C2_Witness ==
    /\ OneRowDone
    /\ Len(rows) = 2
    /\ ret.err = NilErr
    /\ ret.val = <<rows[1]>>

(***************************************************************************)
(* Properties of BulkInsert                                                *)
(***************************************************************************)
BulkDone == pc = "done" /\ call.op = "BulkInsert"
IsPh(t) == t.k = "ph"
PlaceholdersOf(sql) ==
    LET phs == SelectSeq(sql, IsPh) IN [i \in DOMAIN phs |-> phs[i].n]

RECURSIVE Flatten(_)
Flatten(vs) == IF vs = <<>> THEN <<>> ELSE Head(vs) \o Flatten(Tail(vs))

\* The number of placeholders in each parenthesised group of a token list.
RECURSIVE GroupSizes(_, _)
GroupSizes(toks, n) ==
    IF toks = <<>> THEN <<>>
    ELSE IF Head(toks) = W(")") THEN <<n>> \o GroupSizes(Tail(toks), 0)
    ELSE IF Head(toks).k = "ph" THEN GroupSizes(Tail(toks), n + 1)
    ELSE GroupSizes(Tail(toks), n)

ValuesPart(sql) ==
    LET i == CHOOSE i \in DOMAIN sql : sql[i] = W("VALUES")
    IN SubSeq(sql, i + 1, Len(sql))

\* C3: for a non-empty row list, whatever the lengths of the rows, the one
\* statement sent uses $1..$N once each in increasing order, N the number of
\* values of all rows; the i-th group holds as many placeholders as row i has
\* values; and the arguments are the values in row-major order.
C3_PlaceholdersMatchArguments ==
    BulkDone /\ Len(call.values) > 0 =>
        /\ Cardinality(DrvAll) = 1
        /\ \A e \in DrvAll :
            LET N == Len(Flatten(call.values)) IN
            /\ events[e].method = "Exec"
            /\ PlaceholdersOf(events[e].sql) = [i \in 1..N |-> i]
            /\ GroupSizes(ValuesPart(events[e].sql), 0)
                   = [i \in 1..Len(call.values) |-> Len(call.values[i])]
            /\ events[e].args = Flatten(call.values)

\* A statement was built for two rows of different lengths.
C3_Witness ==
    /\ BulkDone
    /\ Len(call.values) = 2
    /\ Len(call.values[1]) > 0
    /\ Len(call.values[2]) > Len(call.values[1])
    /\ DrvAll # {}

\* C4: with no rows the call returns an error, calls the pool not at all and
\* leaves the database as it was.
C4_EmptyRowsFailWithoutStatement ==
    BulkDone /\ Len(call.values) = 0 =>
        /\ ret.err # NilErr
        /\ DrvAll = {}
        /\ db = db0

\* BulkInsert was called with no rows and has returned.
C4_Witness ==
    /\ BulkDone
    /\ call.values = <<>>
    /\ ret.done

(***************************************************************************)
(* Properties of QueryWithPagination                                       *)
(***************************************************************************)
PagDone == pc = "done" /\ call.op = "QueryWithPagination"

\* The argument bound to the placeholder that follows the word w.
BoundAfter(e, w) ==
    LET i == CHOOSE i \in DOMAIN e.sql : e.sql[i] = W(w)
    IN e.args[e.sql[i + 1].n]

\* C5: the text run is the base text followed by LIMIT $(n+1) OFFSET $(n+2),
\* the arguments are the caller's n arguments followed by limit and offset,
\* so $(n+1) binds limit and $(n+2) binds offset.
C5_PaginationAppendsLimitOffset ==
    PagDone =>
        /\ Cardinality(DrvAll) = 1
        /\ \A i \in DrvAll :
            LET e == events[i]
                n == Len(call.args)
            IN /\ e.sql = call.sql \o <<W("LIMIT"), Ph(n + 1), W("OFFSET"), Ph(n + 2)>>
               /\ Len(e.args) = n + 2
               /\ SubSeq(e.args, 1, n) = call.args
               /\ e.args[n + 1] = IntV(call.limit)
               /\ e.args[n + 2] = IntV(call.offset)
               /\ BoundAfter(e, "LIMIT") = IntV(call.limit)
               /\ BoundAfter(e, "OFFSET") = IntV(call.offset)

\* A paginated query without caller arguments ran.
C5_Witness ==
    /\ PagDone
    /\ call.args = <<>>
    /\ \E i \in DrvAll : events[i].ok /\ Len(events[i].args) = 2

(***************************************************************************)
(* Properties of NewDB                                                     *)
(***************************************************************************)
NewDBDone == pc = "done" /\ call.op = "NewDB"

\* C6: exactly one of a pool and an error.  A failure of parsing or of pool
\* creation gives a nil pool and an error wrapping the driver's; pool
\* creation is not attempted after a parse failure; success gives a pool
\* and a nil error.
C6_PoolOrError ==
    NewDBDone =>
        /\ (ret.pool = "nil") # (ret.err = NilErr)
        /\ (FailedCalls("ParseConfig") # {} =>
                /\ DrvCalls("NewWithConfig") = {}
                /\ ret.pool = "nil"
                /\ Len(ret.err) >= 2 /\ Cause(ret.err) = "parse")
        /\ (FailedCalls("NewWithConfig") # {} =>
                /\ ret.pool = "nil"
                /\ Len(ret.err) >= 2 /\ Cause(ret.err) = "connect")
        /\ (OkCalls("ParseConfig") # {} /\ OkCalls("NewWithConfig") # {} =>
                ret.pool # "nil" /\ ret.err = NilErr)

\* Parsing succeeded and pool creation failed.
C6_Witness ==
    /\ NewDBDone
    /\ OkCalls("ParseConfig") # {}
    /\ FailedCalls("NewWithConfig") # {}

(***************************************************************************)
(* Properties of the timing log                                            *)
(***************************************************************************)
DirectLogged == DirectOps \cup {"QueryJson", "ExecJson"}
LoggedOps == DirectLogged \cup {"QueryWithPagination", "QueryWithCTE"}

\* C7 as claimed: every helper call, the two wrappers included, emits exactly
\* one log line, after its driver call, carrying the text that was run.
C7_OneLogLinePerCall ==
    pc = "done" /\ call.op \in LoggedOps =>
        /\ Cardinality(Logs) = 1
        /\ \A i \in Logs :
            /\ events[i].tagged
            /\ \A j \in DrvAll : j < i /\ events[i].sql = events[j].sql

\* C7 amended: a direct helper emits exactly one line, last, carrying its SQL
\* text, which is the text of its driver call.  QueryWithPagination and
\* QueryWithCTE emit exactly two lines after the driver call: first the line
\* of QuerySimple carrying the text that was run, then their own, which
\* carries the caller's base text (pagination) or no SQL text (CTE).
C7_LogLinesPerCall ==
    /\ (pc = "done" /\ call.op \in DirectLogged =>
            /\ Logs = {Len(events)}
            /\ events[Len(events)] = LogSql(call.sql)
            /\ \A j \in DrvAll : events[j].sql = call.sql)
    /\ (pc = "done" /\ call.op \in {"QueryWithPagination", "QueryWithCTE"} =>
            /\ Len(events) = 3
            /\ DrvAll = {1}
            /\ Logs = {2, 3}
            /\ events[2] = LogSql(events[1].sql)
            /\ events[3] = IF call.op = "QueryWithPagination"
                           THEN LogSql(call.sql)
                           ELSE LogPlain("Executed CTE query in %s")
            /\ events[3].sql # events[1].sql)

\* A wrapper call whose query failed has returned.
C7_Witness ==
    /\ pc = "done"
    /\ call.op = "QueryWithCTE"
    /\ \E j \in DrvAll : ~events[j].ok
    /\ Cardinality(Logs) = 2

(***************************************************************************)
(* Properties of ExecJson and QueryJson                                    *)
(***************************************************************************)
ExecJsonDone == pc = "done" /\ call.op = "ExecJson"
ReadBackDone == pc = "done" /\ call.op = "QueryJson" /\ written # <<>> /\ ret.err = NilErr

\* When marshaling succeeds the statement is executed once with the caller's
\* arguments followed by the encoding of the map; when it fails an error is
\* returned and nothing is executed.
ExecJsonSendsEncoding ==
    ExecJsonDone =>
        IF Marshal(call.jsonData).ok
        THEN /\ Cardinality(DrvAll) = 1
             /\ \A i \in DrvAll :
                 LET e == events[i]
                     n == Len(call.args)
                 IN /\ e.method = "Exec"
                    /\ e.sql = call.sql
                    /\ Len(e.args) = n + 1
                    /\ SubSeq(e.args, 1, n) = call.args
                    /\ e.args[n + 1].ty = "[]byte"
                    /\ {e.args[n + 1].v[m].key : m \in DOMAIN e.args[n + 1].v}
                           = DOMAIN call.jsonData
        ELSE ret.err # NilErr /\ DrvAll = {}

====
